---- MODULE Spec2Model ----
(***************************************************************************)
(* The entity-component store of src/src/ecs.rs (World) and the game       *)
(* wrapper of src/src/lib.rs (SolitaireGame) that owns a World and a Deck  *)
(* (src/src/game.rs).                                                      *)
(*                                                                         *)
(* Entity is u32.  TLC's integers are 32-bit signed, so the u32 value n is *)
(* represented by the integer n - 2^31: the order, equality and successor  *)
(* of the 2^32 values are exactly those of u32, E(0) is the u32 zero and   *)
(* EntityMax is u32::MAX.                                                  *)
(***************************************************************************)
EXTENDS Integers, Sequences, FiniteSets, TLC

VARIABLES
    world,            \* World { next_id, components }             (ecs.rs:30-33)
    deck,             \* SolitaireGame.deck.cards, a Vec<Card>      (lib.rs:16, game.rs:57-59)
    panicked,         \* a call has panicked
    call,             \* the last call made on the store or the game, with its result
    attached,         \* history: the (type, entity) pairs add_component was called with
    returned_max,     \* history: the largest entity ID spawn has returned so far
    n_spawn,          \* history: number of spawn calls made in this run
    n_draw,           \* history: number of draw_card calls made
    drawn,            \* history: the set of the Some(..) results of draw_card
    n_setup           \* history: number of setup_board calls made

vars == <<world, deck, panicked, call, attached, returned_max,
          n_spawn, n_draw, drawn, n_setup>>

--------------------------------------------------------------------------
(* Bounds of the exploration *)

MaxSpawn == 2
MaxExtraDraws == 1
MaxSetup == 2
NearMax == 1

--------------------------------------------------------------------------
(* Entity = u32 *)

EntityMax == 2147483647

E(n) == n - EntityMax - 1

WrappingSucc(x) == IF x = EntityMax THEN E(0) ELSE x + 1

None == [some |-> FALSE]
Some(x) == [some |-> TRUE, v |-> x]

--------------------------------------------------------------------------
(* Component types and values *)

ComponentTypes == {"Health", "FaceUp", "Card", "Pile"}

\* Mutation: one TypeId for every type (the identity of the box, not of T).
TypeIdOf_collide(T) == 0

\* TypeId::of::<T>(): a distinct identifier per type.
TypeIdOf(T) ==
    CASE T = "Health" -> 1
      [] T = "FaceUp" -> 2
      [] T = "Card"   -> 3
      [] T = "Pile"   -> 4

\* Box<dyn Any>: the value together with the concrete type it was boxed as.
Box(T, v) == [ty |-> T, val |-> v]

\* <dyn Any>::downcast_ref::<T> / downcast_mut::<T>: the type identity of the
\* boxed value is compared with that of T; on a match the contents are
\* handed out as a T.
Downcast(T, boxed) ==
    IF TypeIdOf(boxed.ty) = TypeIdOf(T) THEN Some(boxed) ELSE None

\* The component values the callers of the exploration pass.
Values(T) ==
    CASE T = "Health" -> {50, 100}
      [] T = "FaceUp" -> {FALSE, TRUE}
      [] T = "Pile"   -> {"Stock"}
      [] T = "Card"   -> {}

TypeInputs == {"Health", "FaceUp"}

EntityInputs == {E(0), E(1), EntityMax}

--------------------------------------------------------------------------
(* World *)

EmptyMap == [x \in {} |-> 0]

Insert(map, k, v) == [x \in (DOMAIN map) \cup {k} |-> IF x = k THEN v ELSE map[x]]

WorldNew == [next_id |-> E(0), components |-> EmptyMap]

\* The overflow-checks setting of the build: on in a debug build, off in a
\* release build.
OverflowChecks == BOOLEAN

\* Mutation: the counter is advanced before it is read.
spawn_pre_increment(w, checks) ==
    IF w.next_id = EntityMax /\ checks
    THEN [world |-> w, id |-> None, panicked |-> TRUE]
    ELSE [world |-> [w EXCEPT !.next_id = WrappingSucc(w.next_id)],
          id |-> Some(WrappingSucc(w.next_id)), panicked |-> FALSE]

\* spawn: result [world, id, panicked].  `self.next_id += 1` at u32::MAX
\* panics when overflow checks are on and wraps to 0 when they are off.
spawn(w, checks) ==
    LET id == w.next_id IN
    IF id = EntityMax /\ checks
    THEN [world |-> w, id |-> None, panicked |-> TRUE]
    ELSE [world |-> [w EXCEPT !.next_id = WrappingSucc(id)],
          id |-> Some(id), panicked |-> FALSE]

\* Mutation: entry(entity).or_insert(..) on the inner map: the first value stays.
add_component_first_wins(w, T, entity, component) ==
    LET type_id == TypeIdOf(T)
        table   == IF type_id \in DOMAIN w.components
                   THEN w.components[type_id] ELSE EmptyMap
    IN IF entity \in DOMAIN table THEN w
       ELSE [w EXCEPT !.components =
               Insert(w.components, type_id, Insert(table, entity, Box(T, component)))]

\* Mutation: insert(type_id, HashMap::new()) on the outer map: a new table per call.
add_component_fresh_table(w, T, entity, component) ==
    [w EXCEPT !.components =
        Insert(w.components, TypeIdOf(T), Insert(EmptyMap, entity, Box(T, component)))]

add_component(w, T, entity, component) ==
    LET type_id == TypeIdOf(T)
        table   == IF type_id \in DOMAIN w.components
                   THEN w.components[type_id] ELSE EmptyMap
    IN [w EXCEPT !.components =
            Insert(w.components, type_id, Insert(table, entity, Box(T, component)))]

\* Mutation: an entity that spawn has not returned is treated as nonexistent.
get_component_spawned_only(w, T, entity) ==
    LET type_id == TypeIdOf(T) IN
    IF entity >= w.next_id \/ type_id \notin DOMAIN w.components THEN None
    ELSE LET map == w.components[type_id] IN
         IF entity \notin DOMAIN map THEN None
         ELSE Downcast(T, map[entity])

get_component(w, T, entity) ==
    LET type_id == TypeIdOf(T) IN
    IF type_id \notin DOMAIN w.components THEN None
    ELSE LET map == w.components[type_id] IN
         IF entity \notin DOMAIN map THEN None
         ELSE Downcast(T, map[entity])

\* get_component_mut: the same lookup; the caller may write through the
\* reference it gets.  write is None (no write) or Some(new value).
get_component_mut(w, T, entity, write) ==
    LET found == get_component(w, T, entity) IN
    IF found.some /\ write.some
    THEN [world |-> [w EXCEPT !.components[TypeIdOf(T)][entity].val = write.v],
          ret |-> found]
    ELSE [world |-> w, ret |-> found]


\* The closures the callers pass to for_each.  k is the number of the visitor
\* call within one for_each (a FnMut closure can count its calls).
Visitors == {"toggle", "only_first_call"}

Toggled(T, boxed) ==
    IF boxed.ty = T
    THEN CHOOSE x \in Values(T) : x # boxed.val
    ELSE CHOOSE x \in Values(T) : TRUE

Visit(f, T, entity, boxed, k) ==
    CASE f = "toggle"          -> Toggled(T, boxed)
      [] f = "only_first_call" -> IF k = 1 THEN Toggled(T, boxed) ELSE boxed.val

\* HashMap::iter_mut yields every key of the map once, in an order of its own.
RECURSIVE SeqsOver(_)
SeqsOver(S) ==
    IF S = {} THEN {<<>>}
    ELSE UNION {{<<x>> \o t : t \in SeqsOver(S \ {x})} : x \in S}

iter_mut(map) == SeqsOver(DOMAIN map)

\* The loop of for_each over the keys in the order `order`; log records the
\* visitor calls: the entity, the value handed in and the value left.
RECURSIVE for_each_loop(_, _, _, _, _, _)
for_each_loop(map, order, i, T, f, log) ==
    IF i > Len(order) THEN [map |-> map, log |-> log]
    ELSE LET entity == order[i]
             comp   == Downcast(T, map[entity])
         IN IF comp.some
            THEN LET new == Visit(f, T, entity, comp.v, Len(log) + 1) IN
                 for_each_loop([map EXCEPT ![entity].val = new], order, i + 1, T, f,
                               Append(log, [entity |-> entity, seen |-> comp.v, left |-> new]))
            ELSE for_each_loop(map, order, i + 1, T, f, log)

\* Mutation: the loop starts at the second key.
for_each_skip_first(w, T, f, order) ==
    LET type_id == TypeIdOf(T) IN
    IF type_id \in DOMAIN w.components
    THEN LET r == for_each_loop(w.components[type_id], order, 2, T, f, <<>>) IN
         [world |-> [w EXCEPT !.components[type_id] = r.map], log |-> r.log]
    ELSE [world |-> w, log |-> <<>>]

for_each(w, T, f, order) ==
    LET type_id == TypeIdOf(T) IN
    IF type_id \in DOMAIN w.components
    THEN LET r == for_each_loop(w.components[type_id], order, 1, T, f, <<>>) IN
         [world |-> [w EXCEPT !.components[type_id] = r.map], log |-> r.log]
    ELSE [world |-> w, log |-> <<>>]

TableOf(w, T) ==
    IF TypeIdOf(T) \in DOMAIN w.components THEN w.components[TypeIdOf(T)] ELSE EmptyMap

--------------------------------------------------------------------------
(* The calls on a World *)

Call(op, T, entity, arg, ret, log) ==
    [op |-> op, ty |-> T, entity |-> entity, arg |-> arg, ret |-> ret, log |-> log,
     pre_next_id |-> world.next_id, pre_max |-> returned_max, f |-> "-",
     before |-> IF entity.some THEN get_component(world, T, entity.v) ELSE None]

GameUnchanged == UNCHANGED <<deck, n_draw, drawn, n_setup>>

Spawn ==
    /\ ~panicked
    /\ n_spawn < MaxSpawn
    /\ \E checks \in OverflowChecks :
        LET r == spawn(world, checks) IN
        /\ world' = r.world
        /\ panicked' = r.panicked
        /\ call' = Call("spawn", "-", None, None, r.id, <<>>)
        /\ returned_max' = IF r.id.some /\ (returned_max.some => r.id.v > returned_max.v)
                           THEN r.id ELSE returned_max
    /\ n_spawn' = n_spawn + 1
    /\ UNCHANGED <<attached>>
    /\ GameUnchanged

AddComponent ==
    /\ ~panicked
    /\ \E T \in TypeInputs, entity \in EntityInputs :
          \E component \in Values(T) :
            /\ world' = add_component(world, T, entity, component)
            /\ call' = Call("add_component", T, Some(entity), Some(component), None, <<>>)
            /\ attached' = attached \cup {<<T, entity>>}
    /\ UNCHANGED <<panicked, returned_max, n_spawn>>
    /\ GameUnchanged

GetComponent ==
    /\ ~panicked
    /\ \E T \in TypeInputs, entity \in EntityInputs :
          call' = Call("get_component", T, Some(entity), None,
                       get_component(world, T, entity), <<>>)
    /\ UNCHANGED <<world, panicked, attached, returned_max, n_spawn>>
    /\ GameUnchanged

GetComponentMut ==
    /\ ~panicked
    /\ \E T \in TypeInputs, entity \in EntityInputs :
          \E write \in {None} \cup {Some(x) : x \in Values(T)} :
            LET r == get_component_mut(world, T, entity, write) IN
            /\ world' = r.world
            /\ call' = Call("get_component_mut", T, Some(entity), write, r.ret, <<>>)
    /\ UNCHANGED <<panicked, attached, returned_max, n_spawn>>
    /\ GameUnchanged

ForEach ==
    /\ ~panicked
    /\ \E T \in TypeInputs, f \in Visitors :
          \E order \in iter_mut(TableOf(world, T)) :
            \E r \in {for_each(world, T, f, order)} :
            /\ world' = r.world
            /\ call' = [Call("for_each", T, None, None, None, r.log) EXCEPT !.f = f]
    /\ UNCHANGED <<panicked, attached, returned_max, n_spawn>>
    /\ GameUnchanged

Next == Spawn \/ AddComponent \/ GetComponent \/ GetComponentMut \/ ForEach

\* World::new()
Init ==
    /\ world = WorldNew
    /\ deck = <<>>
    /\ panicked = FALSE
    /\ call = [op |-> "new", ty |-> "-", entity |-> None, arg |-> None, ret |-> None,
               log |-> <<>>, pre_next_id |-> E(0), pre_max |-> None, f |-> "-",
               before |-> None]
    /\ attached = {}
    /\ returned_max = None
    /\ n_spawn = 0
    /\ n_draw = 0
    /\ drawn = {}
    /\ n_setup = 0

Spec == Init /\ [][Next]_vars

\* A store that spawn has been called on n times since World::new(), for the
\* n just below 2^32: next_id = n, and the IDs 0 .. n-1 have been returned.
InitOverflow ==
    /\ \E k \in 0 .. NearMax :
          /\ world = [next_id |-> EntityMax - k, components |-> EmptyMap]
          /\ returned_max = Some(EntityMax - k - 1)
          /\ call = [op |-> "spawn", ty |-> "-", entity |-> None, arg |-> None,
                     ret |-> Some(EntityMax - k - 1), log |-> <<>>,
                     pre_next_id |-> EntityMax - k - 1,
                     pre_max |-> Some(EntityMax - k - 2), f |-> "-", before |-> None]
    /\ deck = <<>>
    /\ panicked = FALSE
    /\ attached = {}
    /\ n_spawn = 0
    /\ n_draw = 0
    /\ drawn = {}
    /\ n_setup = 0

SpecOverflow == InitOverflow /\ [][Next]_vars

--------------------------------------------------------------------------
(* Cards and the deck (game.rs) *)

Suits == <<"Clubs", "Diamonds", "Hearts", "Spades">>

Ranks == <<"Ace", "Two", "Three", "Four", "Five", "Six", "Seven", "Eight", "Nine",
           "Ten", "Jack", "Queen", "King">>

CardNew(suit, rank) == [suit |-> suit, rank |-> rank]

\* Deck::standard: for each suit in order, each rank in order.
DeckStandard ==
    [i \in 1 .. Len(Suits) * Len(Ranks) |->
        CardNew(Suits[((i - 1) \div Len(Ranks)) + 1], Ranks[((i - 1) % Len(Ranks)) + 1])]

Range(seq) == {seq[i] : i \in DOMAIN seq}

Reverse(seq) == [i \in DOMAIN seq |-> seq[Len(seq) + 1 - i]]

\* Deck::shuffle: slice::shuffle with thread_rng leaves the cards in a
\* permutation that the random generator picks.  The outcomes explored: the
\* order kept and the order reversed.
Shuffles == {"keep", "reverse"}

shuffle(cards, rng) ==
    CASE rng = "keep"    -> cards
      [] rng = "reverse" -> Reverse(cards)

\* format!("{:?} of {:?}", c.rank, c.suit)
Format(c) == <<c.rank, " of ", c.suit>>

\* Mutation: the last card is read and stays in the deck.
draw_card_peek(cards) ==
    IF cards = <<>> THEN [cards |-> cards, ret |-> None]
    ELSE [cards |-> cards, ret |-> Some(Format(cards[Len(cards)]))]

\* draw_card: deck.cards.pop().map(format)
draw_card(cards) ==
    IF cards = <<>> THEN [cards |-> cards, ret |-> None]
    ELSE [cards |-> SubSeq(cards, 1, Len(cards) - 1),
          ret |-> Some(Format(cards[Len(cards)]))]

\* The loop of setup_board over the cards from position i on.
RECURSIVE deal(_, _, _, _)
deal(w, cards, i, checks) ==
    IF i > Len(cards) THEN [world |-> w, panicked |-> FALSE]
    ELSE LET s == spawn(w, checks) IN
         IF s.panicked THEN [world |-> s.world, panicked |-> TRUE]
         ELSE LET entity == s.id.v
                  w1 == add_component(s.world, "Card", entity, cards[i])
                  w2 == add_component(w1, "FaceUp", entity, FALSE)
                  w3 == add_component(w2, "Pile", entity, "Stock")
              IN deal(w3, cards, i + 1, checks)

\* Mutation: the world is not replaced.
setup_board_keep_world(w, cards, rng, checks) ==
    LET shuffled == shuffle(cards, rng)
        r == deal(w, shuffled, 1, checks)
    IN [world |-> r.world, cards |-> shuffled, panicked |-> r.panicked]

\* setup_board: a new World, the deck shuffled, one entity per card.
setup_board(w, cards, rng, checks) ==
    LET shuffled == shuffle(cards, rng)
        r == deal(WorldNew, shuffled, 1, checks)
    IN [world |-> r.world, cards |-> shuffled, panicked |-> r.panicked]

--------------------------------------------------------------------------
(* The calls on a SolitaireGame *)

DrawCard ==
    /\ ~panicked
    /\ n_draw < Len(DeckStandard) + MaxExtraDraws
    /\ LET r == draw_card(deck) IN
        /\ deck' = r.cards
        /\ call' = Call("draw_card", "-", None, Some(deck), r.ret, <<>>)
        /\ drawn' = IF r.ret.some THEN drawn \cup {r.ret.v} ELSE drawn
    /\ n_draw' = n_draw + 1
    /\ UNCHANGED <<world, panicked, attached, returned_max, n_spawn, n_setup>>

SetupBoard ==
    /\ ~panicked
    /\ n_setup < MaxSetup
    /\ \E rng \in Shuffles, checks \in OverflowChecks :
        \E r \in {setup_board(world, deck, rng, checks)} :
        /\ world' = r.world
        /\ deck' = r.cards
        /\ panicked' = r.panicked
        /\ call' = [Call("setup_board", "-", None, Some(deck), None, <<>>) EXCEPT !.f = rng]
    /\ n_setup' = n_setup + 1
    /\ UNCHANGED <<attached, returned_max, n_spawn, n_draw, drawn>>

NextGame == DrawCard \/ SetupBoard

\* SolitaireGame::new()
InitGame ==
    /\ world = WorldNew
    /\ deck = DeckStandard
    /\ panicked = FALSE
    /\ call = [op |-> "new", ty |-> "-", entity |-> None, arg |-> None, ret |-> None,
               log |-> <<>>, pre_next_id |-> E(0), pre_max |-> None, f |-> "-",
               before |-> None]
    /\ attached = {}
    /\ returned_max = None
    /\ n_spawn = 0
    /\ n_draw = 0
    /\ drawn = {}
    /\ n_setup = 0

SpecGame == InitGame /\ [][NextGame]_vars

--------------------------------------------------------------------------
(* Properties of the World *)

Holders(w, T) == {e \in EntityInputs : get_component(w, T, e).some}

\* C1: type safety.  A lookup for type T (get_component, get_component_mut,
\* the value handed to a for_each::<T> visitor) only ever yields a value that
\* was stored by add_component::<T>: the value found is one boxed as T, and
\* T is present on an entity only if add_component::<T> was called for it,
\* so add_component::<A>(e, v) never makes get_component::<B>(e) present.
C1_TypeSafety ==
    /\ \A T \in TypeInputs, e \in EntityInputs :
          LET r == get_component(world, T, e)
              m == get_component_mut(world, T, e, None).ret
          IN /\ r.some => r.v.ty = T /\ <<T, e>> \in attached
             /\ m.some => m.v.ty = T /\ <<T, e>> \in attached
    /\ call.op \in {"get_component", "get_component_mut"} /\ call.ret.some
          => call.ret.v.ty = call.ty /\ <<call.ty, call.entity.v>> \in attached
    /\ call.op = "for_each"
          => \A i \in DOMAIN call.log :
                /\ call.log[i].seen.ty = call.ty
                /\ <<call.ty, call.log[i].entity>> \in attached

\* C1 witness: a lookup returned a value on an entity that holds a component
\* of another type too.
C1_Witness ==
    /\ call.op = "get_component"
    /\ call.ret.some
    /\ \E B \in TypeInputs \ {call.ty} : <<B, call.entity.v>> \in attached

\* C2: entity IDs are unique and increasing.  The first spawn returns 0 and
\* every spawn returns a value strictly greater than every value returned by
\* an earlier spawn.
C2_UniqueIncreasing ==
    call.op = "spawn" /\ call.ret.some
        => IF call.pre_max.some THEN call.ret.v > call.pre_max.v
                                ELSE call.ret.v = E(0)

\* C3: round trip with last write wins.  Right after add_component::<T>(e, v)
\* the lookup of T on e yields exactly v, whatever was attached before, and
\* the table of T holds one value for e.
C3_RoundTrip ==
    call.op = "add_component"
        => LET r == get_component(world, call.ty, call.entity.v)
               m == get_component_mut(world, call.ty, call.entity.v, None).ret
           IN /\ r = Some(Box(call.ty, call.arg.v))
              /\ m = r
              /\ call.entity.v \in DOMAIN TableOf(world, call.ty)

\* C3 witness: add_component overwrote a different value of the same type.
C3_Witness ==
    /\ call.op = "add_component"
    /\ call.before.some
    /\ call.before.v.val # call.arg.v

\* C4: entity isolation.  add_component::<T>(e1, v), a write through
\* get_component_mut::<T>(e1) and the for_each::<T> visitor call for e1 leave
\* the T component of every other entity e2 as it was: absent if absent,
\* and with the same value if present.  (In a for_each every holder has a
\* visitor call of its own: an entity whose own call left its value as it
\* was handed in is unchanged, whatever the calls for the others did.)
C4_EntityIsolation ==
    [][ /\ call'.op \in {"add_component", "get_component_mut"}
            => \A e2 \in EntityInputs \ {call'.entity.v} :
                  get_component(world', call'.ty, e2) = get_component(world, call'.ty, e2)
        /\ call'.op = "for_each"
            => /\ \A e2 \in EntityInputs :
                    (\A i \in DOMAIN call'.log :
                        call'.log[i].entity = e2
                            => call'.log[i].left = call'.log[i].seen.val)
                    => get_component(world', call'.ty, e2) = get_component(world, call'.ty, e2)
               /\ \A i \in DOMAIN call'.log :
                    Some(call'.log[i].seen) = get_component(world, call'.ty, call'.log[i].entity)
      ]_vars

\* C4 witness: a component was attached to, or changed in place on, one
\* entity while another entity held a component of the same type.
C4_Witness ==
    /\ \/ call.op = "add_component"
       \/ call.op = "get_component_mut" /\ call.ret.some /\ call.arg.some
             /\ call.arg.v # call.ret.v.val
    /\ \E e2 \in EntityInputs \ {call.entity.v} : get_component(world, call.ty, e2).some

\* C5: absence is a normal result and presence is permanent.  A lookup of T
\* on e is present exactly when add_component::<T>(e, _) has been called on
\* this store, for every T and every e (spawned or not), and no lookup fails.
C5_PresenceIffAttached ==
    /\ \A T \in TypeInputs, e \in EntityInputs \cup {E(2)} :
          /\ get_component(world, T, e).some <=> <<T, e>> \in attached
          /\ get_component_mut(world, T, e, None).ret.some <=> <<T, e>> \in attached
    /\ call.op \in {"get_component", "get_component_mut"}
          => /\ call.ret.some <=> <<call.ty, call.entity.v>> \in attached
             /\ ~panicked

\* C5 witness: a lookup came back absent on an entity that spawn returned,
\* for a type that is attached to another entity only.
C5_Witness ==
    /\ call.op \in {"get_component", "get_component_mut"}
    /\ ~call.ret.some
    /\ returned_max.some /\ call.entity.v <= returned_max.v
    /\ \E e2 \in EntityInputs \ {call.entity.v} : <<call.ty, e2>> \in attached

\* C6: iteration completeness.  for_each::<T> calls the visitor exactly once
\* for every entity holding a T at the time of the call and for no other;
\* each call is handed the entity's current value and the value it leaves is
\* what later lookups return; the holders of T, the components of other
\* types and next_id do not change; with no holder nothing changes.
C6_ForEachComplete ==
    [][ call'.op = "for_each"
          => LET T   == call'.ty
                 log == call'.log
             IN /\ {log[i].entity : i \in DOMAIN log} = Holders(world, T)
                /\ Len(log) = Cardinality(Holders(world, T))
                /\ \A i \in DOMAIN log :
                      /\ Some(log[i].seen) = get_component(world, T, log[i].entity)
                      /\ get_component(world', T, log[i].entity) = Some(Box(T, log[i].left))
                      /\ get_component_mut(world', T, log[i].entity, None).ret
                            = Some(Box(T, log[i].left))
                /\ Holders(world', T) = Holders(world, T)
                /\ \A U \in TypeInputs \ {T} : TableOf(world', U) = TableOf(world, U)
                /\ world'.next_id = world.next_id
                /\ Holders(world, T) = {} => world' = world
      ]_vars

\* C6 witness: a for_each over three holders changed some of their values
\* while the other type was attached too.
C6_Witness ==
    /\ call.op = "for_each"
    /\ Len(call.log) = 3
    /\ \E i \in DOMAIN call.log : call.log[i].left # call.log[i].seen.val
    /\ \E i \in DOMAIN call.log : call.log[i].left = call.log[i].seen.val
    /\ \E U \in TypeInputs \ {call.ty} : Holders(world, U) # {}

\* C7: spawn never fails.  Every spawn call completes, returns an entity ID
\* and leaves next_id strictly greater than it was before the call.
C7_SpawnNeverFails ==
    call.op = "spawn"
        => /\ ~panicked
           /\ call.ret.some
           /\ world.next_id > call.pre_next_id

--------------------------------------------------------------------------
(* Properties of the SolitaireGame *)

GameTypes == {"Card", "FaceUp", "Pile"}

\* C8: draw_card returns the last card of a non-empty deck and removes
\* exactly it, and returns None on an empty deck, which stays empty; a new
\* game holds 52 cards pairwise distinct in (suit, rank) and nothing adds
\* cards, so exactly the first 52 draw_card calls return a card, the 52
\* results are distinct, and every later call returns None, whatever
\* setup_board calls come between.
C8_DrawCard ==
    /\ call.op = "new"
          => /\ Len(deck) = 52
             /\ Cardinality({<<deck[i].suit, deck[i].rank>> : i \in DOMAIN deck}) = 52
    /\ call.op = "draw_card"
          => LET before == call.arg.v IN
             /\ before # <<>>
                   => /\ call.ret = Some(Format(before[Len(before)]))
                      /\ deck = SubSeq(before, 1, Len(before) - 1)
             /\ before = <<>> => call.ret = None /\ deck = <<>>
             /\ call.ret.some <=> n_draw <= 52
    /\ Cardinality(drawn) = IF n_draw <= 52 THEN n_draw ELSE 52
    /\ Len(deck) + Cardinality(drawn) = 52
    /\ {Format(deck[i]) : i \in DOMAIN deck} \cap drawn = {}

\* C8 witness: the 53rd draw_card call, after a setup_board that reordered
\* the deck, returned None with 52 distinct cards drawn before it.
C8_Witness ==
    /\ call.op = "draw_card"
    /\ ~call.ret.some
    /\ n_draw = 53
    /\ n_setup = 2
    /\ Cardinality(drawn) = 52

====
